---- MODULE Spec2Model ----
(***************************************************************************)
(* dcupdate: the Docker Compose updater.                                   *)
(*                                                                         *)
(* The model covers the cobra-based program (src/main.go second program,   *)
(* src/docker.go, src/unnamed/part_003): the selection policy              *)
(* (shouldProcessService, listServices), one update cycle (updateImages)   *)
(* as a sequence of blocking subprocess calls, the HTTP handler            *)
(* handleUpdate served by net/http (one goroutine per request), and the    *)
(* daemon loop.  Docker itself is the environment: its answers are drawn   *)
(* nondeterministically, its state is the pair (imageDigest, container).   *)
(***************************************************************************)
EXTENDS Integers, Sequences, FiniteSets, TLC

\* ------------------------------------------------------------------ bounds

\* Number of HTTP requests (handler goroutines) the listen server receives.
MaxRequests == 2
\* Number of requests of the trigger-burst scenario: one trigger that starts
\* from idle and MaxBurst - 1 further ones.
MaxBurst == 3
\* Number of update cycles the daemon loop runs before the model stops it.
MaxCycles == 2
\* Longest include / exclude list drawn for the selection-policy checks.
MaxList == 2

\* ------------------------------------------------------------ value spaces

\* Service names that may be declared in the compose file.
Declarable == {"a", "b"}
\* Names a policy may mention: the declarable ones and one that is never declared.
Names == Declarable \cup {"x"}
\* Content digests reported by docker.
Digests == {"d1", "d2"}
\* A service without a live container.
None == "none"
\* The compose file: present and parsing (with the services it declares),
\* absent, or present with YAML that does not parse.
\* The two names readDockerCompose tries, docker-compose.yml first.
FileNames == {"yml", "yaml"}

File(declared) == [state |-> "ok", declared |-> declared, name |-> "yml"]
Missing == [state |-> "missing", declared |-> {}, name |-> ""]
Malformed == [state |-> "malformed", declared |-> {}, name |-> "yml"]

\* The file under the name n.
Named(file, n) == [file EXCEPT !.name = n]

\* Execution contexts: 0 is the daemon / CLI loop, 1..MaxRequests are the
\* goroutines net/http starts, one per request.
Daemon == 0
Handlers == 1..MaxRequests
BurstHandlers == 1..MaxBurst
Ctx == 0..(IF MaxBurst > MaxRequests THEN MaxBurst ELSE MaxRequests)

Methods == {"POST", "GET", "PUT"}
\* State of the X-Webhook-Signature header of a request, relative to the
\* operator's shared secret.
Signatures == {"missing", "bad", "good"}

VARIABLES
    composeFile,    \* world: the compose file, [state, declared, name]
    imageDigest,    \* world: service -> digest of its local image
    container,      \* world: service -> digest its live container runs, or None
    config,         \* *Config set by initConfig: [Nil, Include, Exclude]
    exited,         \* the process has called os.Exit (log.Fatalf)
    pc,             \* context -> position in handleUpdate / updateImages / daemon loop
    req,            \* context -> the request it serves
    status,         \* context -> HTTP status written (0: none yet)
    local,          \* context -> the locals of its updateImages call
    cycleLog,       \* history: context -> what its current cycle has issued and decided
    cyclesStarted,  \* history: number of updateImages executions started
    overlapped,     \* history: context -> contexts inside a cycle when its trigger was accepted
    active          \* result cell of the selection-policy checks

vars == <<composeFile, imageDigest, container, config, exited, pc, req, status,
          local, cycleLog, cyclesStarted, overlapped, active>>

world == <<composeFile, imageDigest, container>>

\* ------------------------------------------------------- selection policy

Range(s) == {s[k] : k \in DOMAIN s}

\* All sequences over S of length at most n.
SeqUpTo(S, n) == UNION {[1..k -> S] : k \in 0..n}

\* All orders in which the elements of set S can be enumerated.
Perms(S) == {p \in [1..Cardinality(S) -> S] : Range(p) = S}

\* Mutant: include is consulted before exclude.
shouldProcessService_IncludeFirst(serviceName, cfg) ==
    IF Len(cfg.Include) > 0
    THEN \E k \in 1..Len(cfg.Include) : cfg.Include[k] = serviceName
    ELSE ~(\E k \in 1..Len(cfg.Exclude) : cfg.Exclude[k] = serviceName)

\* Mutant: the include list is never consulted.
shouldProcessService_NoInclude(serviceName, cfg) ==
    ~(\E k \in 1..Len(cfg.Exclude) : cfg.Exclude[k] = serviceName)

shouldProcessService(serviceName, cfg) ==
    IF Len(cfg.Exclude) > 0 /\ \E k \in 1..Len(cfg.Exclude) : cfg.Exclude[k] = serviceName
    THEN FALSE
    ELSE IF Len(cfg.Include) > 0
         THEN \E k \in 1..Len(cfg.Include) : cfg.Include[k] = serviceName
         ELSE TRUE

\* The names listServices appends, as a set; the slice is one enumeration of it
\* (Go enumerates a map in an unspecified order).
listServicesSet(declared, cfg) ==
    {s \in declared : ~(~cfg.Nil /\ ~shouldProcessService(s, cfg))}

listServices(declared, cfg) == Perms(listServicesSet(declared, cfg))

\* ------------------------------------------------------------ the cycle

StatusOK == 200
StatusMethodNotAllowed == 405

\* Positions of a context that is inside updateImages.
CyclePcs == {"read", "statyaml", "load", "pull", "image", "name", "digest", "down", "up"}

InCycle(g) == pc[g] \in CyclePcs

\* The contexts that are inside updateImages.
Running == {h \in Ctx : InCycle(h)}

\* The locals of updateImages: compose, services, the loop position, the
\* updateServices flag, latestDigest and containerName.
FreshLocal == [file |-> "", compose |-> Missing, services |-> <<>>, idx |-> 0,
               updateServices |-> FALSE, latestDigest |-> <<>>, containerName |-> ""]

\* What a cycle has done so far.  pulls: the service arguments of each pull;
\* latestSeen: the digest docker held for the image when the current iteration
\* inspected it; same: the compared services whose image and container
\* digests, as docker held them, were equal; stopped / started: the services
\* down / up were issued against; prevFailed: the pull, down or up of the
\* previous cycle of the same context failed.
EmptyLog == [loaded |-> FALSE, declared |-> {}, active |-> {}, pulls |-> <<>>,
             pullFailed |-> FALSE, inspected |-> {}, absent |-> {}, required |-> {},
             skipped |-> {}, uptodate |-> {}, latestSeen |-> "", same |-> {},
             downs |-> 0, downFailed |-> FALSE, stopped |-> {},
             ups |-> 0, upFailed |-> FALSE, started |-> {},
             prevFailed |-> FALSE]

\* The pull, the down or the up of the cycle logged in L failed.
StepFailed(L) == L.pullFailed \/ L.downFailed \/ L.upFailed

\* ------------------------------------------------------- subprocess output

\* The output of a subprocess is the sequence of the runes (code points) of
\* its text, as Go decodes it; a byte that is not valid UTF-8 decodes to
\* U+FFFD (65533), which is not white space.

\* The runes of the digests of the model: "d1" is 'd' '1', "d2" is 'd' '2'.
Runes(text) ==
    CASE text = "d1" -> <<100, 49>>
      [] text = "d2" -> <<100, 50>>

\* The white space strings.TrimSpace strips, which is unicode.IsSpace: \t, \n,
\* \v, \f, \r, space, U+0085, U+00A0, U+1680, U+2000 to U+200A, U+2028, U+2029,
\* U+202F, U+205F and U+3000.
Whitespace ==
    {9, 10, 11, 12, 13, 32, 133, 160, 5760} \cup (8192..8202)
        \cup {8232, 8233, 8239, 8287, 12288}

\* The forms in which a subprocess prints one value on stdout: the value with
\* or without the trailing newline, possibly indented by a space or a tab,
\* possibly with a CR LF line end.
Output(text) ==
    {Runes(text) \o <<10>>, Runes(text), <<32>> \o Runes(text) \o <<10>>,
     <<9>> \o Runes(text) \o <<13, 10>>}

RECURSIVE TrimLeft(_)
TrimLeft(out) ==
    IF Len(out) > 0 /\ Head(out) \in Whitespace THEN TrimLeft(Tail(out)) ELSE out

RECURSIVE TrimRight(_)
TrimRight(out) ==
    IF Len(out) > 0 /\ out[Len(out)] \in Whitespace
    THEN TrimRight(SubSeq(out, 1, Len(out) - 1)) ELSE out

\* Mutant: the output is used as printed.
TrimSpace_Identity(out) == out

\* strings.TrimSpace
TrimSpace(out) == TrimRight(TrimLeft(out))

\* getImageDigest: the trimmed output of docker image inspect --format={{.Id}}.
getImageDigest(out) == TrimSpace(out)

\* getContainerDigest: the trimmed output of docker container inspect --format={{.Image}}.
getContainerDigest(out) == TrimSpace(out)

\* The compose file parses: readDockerCompose returns a *DockerCompose.
Loadable(file) == file.state = "ok"

\* Where a context is once updateImages has returned: handleUpdate writes 200
\* and ends; the daemon loop sleeps.
ReturnPc(g) == IF g = Daemon THEN "sleep" ELSE "done"

\* Context g moves to position p with locals L; the locals end with the call.
Goto(g, p, L) ==
    /\ pc' = [pc EXCEPT ![g] = p]
    /\ local' = [local EXCEPT ![g] = IF p \in {"done", "sleep", "fatal"} THEN FreshLocal ELSE L]
    /\ status' = IF p = "done" THEN [status EXCEPT ![g] = StatusOK] ELSE status

\* A call of updateImages begins.
StartCycle(g) ==
    /\ pc' = [pc EXCEPT ![g] = "read"]
    /\ local' = [local EXCEPT ![g] = FreshLocal]
    /\ cycleLog' = [cycleLog EXCEPT ![g] = [EmptyLog EXCEPT !.prevFailed = StepFailed(cycleLog[g])]]
    /\ cyclesStarted' = cyclesStarted + 1

\* The service of the current loop iteration.
Current(g) == local[g].services[local[g].idx]

\* Mutant: the empty active set is not special-cased.
PcAfterList_NoEmptyCheck(g, order) == "pull"

\* len(services) == 0 returns from updateImages; otherwise the pull is next.
PcAfterList(g, order) == IF Len(order) = 0 THEN ReturnPc(g) ELSE "pull"

\* os.Stat(file) succeeds: the compose file exists under the name n.
Exists(n) == composeFile.state /= "missing" /\ composeFile.name = n

\* readOneOf, first name: os.Stat("docker-compose.yml"); on success that
\* file is the one to read, otherwise the second name is tried.
StatYml(g) ==
    /\ ~exited
    /\ pc[g] = "read"
    /\ IF Exists("yml")
       THEN Goto(g, "load", [local[g] EXCEPT !.file = "yml"])
       ELSE Goto(g, "statyaml", local[g])
    /\ UNCHANGED <<world, config, exited, req, cycleLog, cyclesStarted, overlapped, active>>

\* readOneOf, second name: os.Stat("docker-compose.yaml"); when neither name
\* exists readOneOf returns os.ErrNotExist and updateImages ends the process.
StatYaml(g) ==
    /\ ~exited
    /\ pc[g] = "statyaml"
    /\ IF Exists("yaml")
       THEN /\ Goto(g, "load", [local[g] EXCEPT !.file = "yaml"])
            /\ UNCHANGED exited
       ELSE /\ exited' = TRUE
            /\ Goto(g, "fatal", local[g])
    /\ UNCHANGED <<world, config, req, cycleLog, cyclesStarted, overlapped, active>>

\* os.ReadFile of the name found, yaml.Unmarshal and listServices.  A file
\* that is gone by now, or cannot be parsed, ends the process (log.Fatalf).
ReadCompose(g) ==
    /\ ~exited
    /\ pc[g] = "load"
    /\ IF ~(Exists(local[g].file) /\ Loadable(composeFile))
       THEN /\ exited' = TRUE
            /\ Goto(g, "fatal", local[g])
            /\ UNCHANGED cycleLog
       ELSE /\ \E order \in listServices(composeFile.declared, config) :
                 /\ Goto(g, PcAfterList(g, order),
                         [local[g] EXCEPT !.compose = composeFile, !.services = order])
                 /\ cycleLog' = [cycleLog EXCEPT ![g].loaded = TRUE,
                                                ![g].declared = composeFile.declared,
                                                ![g].active = Range(order)]
            /\ UNCHANGED exited
    /\ UNCHANGED <<world, config, req, cyclesStarted, overlapped, active>>

\* Mutant: the pull names one workload only, as a pull issued per workload would.
PullArgs_OnlyFirst(g) == {local[g].services[1]}

\* Mutant: the pull lists the services of the compose file as it is now.
PullArgs_Reread(g) ==
    IF Loadable(composeFile) THEN listServicesSet(composeFile.declared, config) ELSE {}

\* Mutant: the pull names every declared service.
PullArgs_WholeStack(g) == local[g].compose.declared

\* args = append({"compose", "pull"}, services...): the services pulled.
PullArgs(g) == Range(local[g].services)

\* Mutant: a failed pull is only logged.
PcAfterPull_IgnoreError(g, ok) == "image"

\* A failed pull returns from updateImages; otherwise the comparison loop is next.
PcAfterPull(g, ok) == IF ok THEN "image" ELSE ReturnPc(g)

\* docker compose pull <services...>: one bulk pull; on failure the cycle returns.
Pull(g) ==
    /\ ~exited
    /\ pc[g] = "pull"
    /\ \E ok \in BOOLEAN :
         /\ cycleLog' = [cycleLog EXCEPT ![g].pulls = Append(@, PullArgs(g)),
                                        ![g].pullFailed = ~ok]
         /\ IF ok
            THEN \E fresh \in [PullArgs(g) -> Digests] :
                   imageDigest' = [s \in DOMAIN imageDigest |->
                                     IF s \in DOMAIN fresh THEN fresh[s] ELSE imageDigest[s]]
            ELSE UNCHANGED imageDigest
         /\ Goto(g, PcAfterPull(g, ok), [local[g] EXCEPT !.idx = 1, !.updateServices = FALSE])
    /\ UNCHANGED <<composeFile, container, config, exited, req, cyclesStarted,
                   overlapped, active>>

\* Mutant: the loop ends with its first iteration, as after a `return` in place
\* of `continue`.
PcAfterIteration_StopEarly(g, update) ==
    IF update THEN "down" ELSE ReturnPc(g)

\* Mutant: the restart follows the loop whatever the flag says.
PcAfterIteration_AlwaysRestart(g, update) ==
    IF local[g].idx < Len(local[g].services) THEN "image" ELSE "down"

\* Mutant: the loop breaks at the first service that needs an update.
PcAfterIteration_BreakOnRequired(g, update) ==
    IF update THEN "down"
    ELSE IF local[g].idx < Len(local[g].services) THEN "image" ELSE ReturnPc(g)

\* The loop moves on: the next service, or the end of the loop, where the
\* updateServices flag decides between the restart and the return.
PcAfterIteration(g, update) ==
    IF local[g].idx < Len(local[g].services) THEN "image"
    ELSE IF update THEN "down" ELSE ReturnPc(g)

\* The end of one loop iteration that leaves the flag at `update`.
EndIteration(g, update) ==
    Goto(g, PcAfterIteration(g, update),
         [local[g] EXCEPT !.idx = @ + 1, !.updateServices = update,
                          !.latestDigest = <<>>, !.containerName = ""])

\* `continue` after a failed lookup: the service is skipped, the flag is untouched.
Skip(g) ==
    /\ cycleLog' = [cycleLog EXCEPT ![g].inspected = @ \cup {Current(g)},
                                   ![g].skipped = @ \cup {Current(g)},
                                   ![g].latestSeen = ""]
    /\ EndIteration(g, local[g].updateServices)

\* getImageDigest(service.Image): docker image inspect.
InspectImage(g) ==
    /\ ~exited
    /\ pc[g] = "image"
    /\ \E ok \in BOOLEAN :
         IF ok
         THEN /\ \E out \in Output(imageDigest[Current(g)]) :
                   Goto(g, "name", [local[g] EXCEPT !.latestDigest = getImageDigest(out)])
              /\ cycleLog' = [cycleLog EXCEPT ![g].inspected = @ \cup {Current(g)},
                                             ![g].latestSeen = imageDigest[Current(g)]]
         ELSE Skip(g)
    /\ UNCHANGED <<world, config, exited, req, cyclesStarted, overlapped, active>>

\* What docker compose ps --format {{.Name}} <service> prints, trimmed: the
\* name of the service's container (named after the service here), or nothing
\* when the service has no container.
getContainerName(serviceName) ==
    IF container[serviceName] = None THEN "" ELSE serviceName

\* getContainerName(serviceName): docker compose ps.
ContainerName(g) ==
    /\ ~exited
    /\ pc[g] = "name"
    /\ \E ok \in BOOLEAN :
         IF ok
         THEN /\ Goto(g, "digest",
                      [local[g] EXCEPT !.containerName = getContainerName(Current(g))])
              /\ cycleLog' = [cycleLog EXCEPT ![g].absent =
                                IF getContainerName(Current(g)) = ""
                                THEN @ \cup {Current(g)} ELSE @]
         ELSE Skip(g)
    /\ UNCHANGED <<world, config, exited, req, cyclesStarted, overlapped, active>>

\* docker container inspect <name> answers only for an existing container:
\* an empty name, or a container removed since its name was read, is an error.
ContainerAnswers(name) == name /= "" /\ container[name] /= None

\* currentDigest != latestDigest
updateThisService(currentDigest, latest) == currentDigest /= latest

\* Mutant: the flag is assigned the decision of the service just compared.
updateServicesAfter_LastWins(flag, update) == update

\* if currentDigest != latestDigest { updateServices = true }: the flag once
\* the service has been compared; it is never cleared.
updateServicesAfter(flag, update) == flag \/ update

\* getContainerDigest(containerName) and the comparison that ends the iteration.
ContainerDigest(g) ==
    /\ ~exited
    /\ pc[g] = "digest"
    /\ \E ok \in BOOLEAN :
         IF ok /\ ContainerAnswers(local[g].containerName)
         THEN \E out \in Output(container[local[g].containerName]) :
              LET update == updateThisService(getContainerDigest(out),
                                              local[g].latestDigest)
                  equal == container[local[g].containerName] = cycleLog[g].latestSeen
              IN /\ cycleLog' = [cycleLog EXCEPT
                       ![g].required = IF update THEN @ \cup {Current(g)} ELSE @,
                       ![g].uptodate = IF update THEN @ ELSE @ \cup {Current(g)},
                       ![g].same = IF equal THEN @ \cup {Current(g)} ELSE @,
                       ![g].latestSeen = ""]
                 /\ EndIteration(g, updateServicesAfter(local[g].updateServices, update))
         ELSE Skip(g)
    /\ UNCHANGED <<world, config, exited, req, cyclesStarted, overlapped, active>>

\* Mutant: down and up name the services the policy admits.
Stack_ActiveOnly ==
    IF Loadable(composeFile) THEN listServicesSet(composeFile.declared, config) ELSE {}

\* The services docker compose down / up act on when given no service
\* argument: every service of the compose file as it is when the command runs.
Stack == IF Loadable(composeFile) THEN composeFile.declared ELSE {}

\* Mutant: a failed down ends the cycle.
PcAfterDown_StopOnError(g, ok) == IF ok THEN "up" ELSE ReturnPc(g)

\* The error of down is only logged: up is next either way.
PcAfterDown(g, ok) == "up"

\* docker compose down: stops the whole project; a failure is only logged.
Down(g) ==
    /\ ~exited
    /\ pc[g] = "down"
    /\ \E ok \in {b \in BOOLEAN : b => Loadable(composeFile)} :
         /\ cycleLog' = [cycleLog EXCEPT ![g].downs = @ + 1,
                                        ![g].downFailed = ~ok,
                                        ![g].stopped = @ \cup Stack]
         /\ container' = IF ok
                         THEN [s \in DOMAIN container |->
                                 IF s \in Stack THEN None ELSE container[s]]
                         ELSE container
         /\ Goto(g, PcAfterDown(g, ok), local[g])
    /\ UNCHANGED <<composeFile, imageDigest, config, exited, req, cyclesStarted,
                   overlapped, active>>

\* Mutant: a failed up ends the process.
PcAfterUp_FatalOnError(g, ok) == IF ok THEN ReturnPc(g) ELSE "fatal"

\* The error of up is only logged: updateImages returns either way.
PcAfterUp(g, ok) == ReturnPc(g)

\* docker compose up -d: starts every service the compose file declares from
\* its local image; a failure is only logged.  Then updateImages returns.
Up(g) ==
    /\ ~exited
    /\ pc[g] = "up"
    /\ \E ok \in {b \in BOOLEAN : b => Loadable(composeFile)} :
         /\ cycleLog' = [cycleLog EXCEPT ![g].ups = @ + 1,
                                        ![g].upFailed = ~ok,
                                        ![g].started = @ \cup Stack]
         /\ container' = IF ok
                         THEN [s \in DOMAIN container |->
                                 IF s \in Stack THEN imageDigest[s] ELSE container[s]]
                         ELSE container
         /\ Goto(g, PcAfterUp(g, ok), local[g])
    /\ UNCHANGED <<composeFile, imageDigest, config, exited, req, cyclesStarted,
                   overlapped, active>>

\* One step of updateImages in context g.
CycleStep(g) ==
    \/ StatYml(g)
    \/ StatYaml(g)
    \/ ReadCompose(g)
    \/ Pull(g)
    \/ InspectImage(g)
    \/ ContainerName(g)
    \/ ContainerDigest(g)
    \/ Down(g)
    \/ Up(g)

\* ------------------------------------------------------ the listen server

\* Handler g has been entered for a request.
Accepted(g) == pc[g] /= "idle"

\* Mutant: every method is served like POST.
IsPost_AnyMethod(method) == TRUE

\* r.Method == http.MethodPost
IsPost(method) == method = "POST"

\* Mutant: a POST that finds a cycle in progress is answered without running one.
PostPc_DropWhenBusy(g) == IF Running /= {} THEN "done" ELSE "read"

\* Where handleUpdate goes on a POST: it calls updateImages itself.
PostPc(g) == "read"

\* net/http runs handleUpdate in a goroutine of its own for each request;
\* handlers are numbered in the order they are entered.  A POST enters
\* updateImages in the handler's goroutine; any other method is answered 405.
HandleUpdate(g) ==
    /\ ~exited
    /\ pc[g] = "idle"
    /\ g > 1 => Accepted(g - 1)
    /\ \E m \in Methods, sig \in Signatures :
         /\ req' = [req EXCEPT ![g] = [method |-> m, sig |-> sig]]
         /\ IF IsPost(m)
            THEN /\ overlapped' = [overlapped EXCEPT ![g] = Running]
                 /\ IF PostPc(g) = "read"
                    THEN /\ StartCycle(g)
                         /\ UNCHANGED status
                    ELSE /\ Goto(g, "done", local[g])
                         /\ UNCHANGED <<cycleLog, cyclesStarted>>
            ELSE /\ status' = [status EXCEPT ![g] = StatusMethodNotAllowed]
                 /\ pc' = [pc EXCEPT ![g] = "done"]
                 /\ UNCHANGED <<local, cycleLog, cyclesStarted, overlapped>>
    /\ UNCHANGED <<world, config, exited, active>>

\* ------------------------------------------------------- the daemon loop

\* Mutant: a ticker starts the next call whether or not the previous one has
\* returned.
LoopAtCall_Ticker == pc[Daemon] \in {"start", "sleep"} \cup CyclePcs

\* The loop is at its updateImages call: on entry, or when the previous call
\* has returned and the sleep after it has elapsed.
LoopAtCall == pc[Daemon] \in {"start", "sleep"}

\* daemonCmd: for { updateImages(config); time.Sleep(...) }.  The first call
\* is made at once, each later one when the sleep has elapsed.
DaemonLoop ==
    /\ ~exited
    /\ LoopAtCall
    /\ cyclesStarted < MaxCycles
    /\ StartCycle(Daemon)
    /\ UNCHANGED <<world, config, exited, req, status, overlapped, active>>

\* ------------------------------------------------------- the environment

ComposeFiles ==
    {Named(f, n) : f \in {File(d) : d \in SUBSET Declarable} \cup {Malformed},
                   n \in FileNames} \cup {Missing}

\* The operator edits, renames, removes or breaks the compose file.
EditCompose ==
    /\ ~exited
    /\ \E f \in ComposeFiles \ {composeFile} : composeFile' = f
    /\ UNCHANGED <<imageDigest, container, config, exited, pc, req, status, local,
                   cycleLog, cyclesStarted, overlapped, active>>

\* ----------------------------------------------------------- initial states

NoResult == [called |-> "", name |-> "", verdict |-> FALSE, result |-> <<>>]
NoRequest == [method |-> "", sig |-> ""]

Policy(inc, exc) == [Nil |-> FALSE, Include |-> inc, Exclude |-> exc]

\* Policies of the cycle specifications: allow-all, one excluded, one included,
\* everything excluded.
CyclePolicies == {Policy(<<>>, <<>>), Policy(<<>>, <<"b">>), Policy(<<"a">>, <<>>),
                  Policy(<<>>, <<"a", "b">>)}

InitContexts(first) ==
    /\ exited = FALSE
    /\ pc = first
    /\ req = [g \in Ctx |-> NoRequest]
    /\ status = [g \in Ctx |-> 0]
    /\ local = [g \in Ctx |-> FreshLocal]
    /\ cycleLog = [g \in Ctx |-> EmptyLog]
    /\ cyclesStarted = 0
    /\ overlapped = [g \in Ctx |-> {}]
    /\ active = NoResult

\* dcupdate listen <port>: no request has arrived yet.
Init ==
    /\ composeFile \in {File({"a"}), Missing}
    /\ imageDigest = [s \in Declarable |-> "d1"]
    /\ container \in {[s \in Declarable |-> IF s = "a" THEN c ELSE None] :
                        c \in Digests \cup {None}}
    /\ config = Policy(<<>>, <<>>)
    /\ InitContexts([g \in Ctx |-> IF g = Daemon THEN "off" ELSE "idle"])

Next ==
    \/ \E g \in Handlers : HandleUpdate(g)
    \/ \E g \in Handlers : CycleStep(g)

Spec == Init /\ [][Next]_vars

\* The same server receiving a burst of MaxBurst requests.
NextBurst ==
    \/ \E g \in BurstHandlers : HandleUpdate(g)
    \/ \E g \in BurstHandlers : CycleStep(g)

SpecBurst == Init /\ [][NextBurst]_vars

\* dcupdate daemon: the loop is about to make its first call.
InitDaemon ==
    /\ composeFile \in ComposeFiles
    /\ imageDigest \in [Declarable -> Digests]
    /\ container \in [Declarable -> Digests \cup {None}]
    /\ config \in CyclePolicies
    /\ InitContexts([g \in Ctx |-> IF g = Daemon THEN "start" ELSE "off"])

NextDaemon ==
    \/ DaemonLoop
    \/ CycleStep(Daemon)
    \/ EditCompose

SpecDaemon == InitDaemon /\ [][NextDaemon]_vars

\* -------------------------------------------- the flag-based variant
\* The first program of main.go: main loops over updateImages and a sleep,
\* and updateImages compares, for every service of the compose file, the hash
\* of the local image with the digest the registry's manifest names.

\* updateServices := true
UpdateServicesInit == TRUE

\* getCurrentImageHash returns string(output): the output as printed.
getCurrentImageHash(out) == out

\* getLatestImageHash returns manifest.Config.Digest of the parsed manifest.
getLatestImageHash(digest) == Runes(digest)

\* The locals of the variant's updateImages.
FlagLocal(file, order) ==
    [compose |-> file, services |-> order, idx |-> 1,
     updateServices |-> UpdateServicesInit, currentHash |-> <<>>, latestHash |-> <<>>]

\* After the loop, by `break` or by running out of services: the restart if
\* the flag is set, the return otherwise.
FlagPcAfterLoop(g, update) == IF update THEN "down" ELSE ReturnPc(g)

\* After an iteration that did not break.
FlagPcAfterIteration(g, update) ==
    IF local[g].idx < Len(local[g].services) THEN "image" ELSE FlagPcAfterLoop(g, update)

\* readDockerCompose, fatal on error, and the entry of the range loop, which
\* visits the services map in an order of the runtime's choosing.
FlagRead(g) ==
    /\ ~exited
    /\ pc[g] = "read"
    /\ IF ~Loadable(composeFile)
       THEN /\ exited' = TRUE
            /\ Goto(g, "fatal", local[g])
            /\ UNCHANGED cycleLog
       ELSE /\ \E order \in Perms(composeFile.declared) :
                 Goto(g, IF Len(order) = 0 THEN FlagPcAfterLoop(g, UpdateServicesInit)
                                           ELSE "image",
                      FlagLocal(composeFile, order))
            /\ cycleLog' = [cycleLog EXCEPT ![g].loaded = TRUE,
                                           ![g].declared = composeFile.declared]
            /\ UNCHANGED exited
    /\ UNCHANGED <<world, config, req, cyclesStarted, overlapped, active>>

\* `continue` after a failed hash lookup.
FlagSkip(g) ==
    /\ cycleLog' = [cycleLog EXCEPT ![g].inspected = @ \cup {Current(g)},
                                   ![g].skipped = @ \cup {Current(g)}]
    /\ Goto(g, FlagPcAfterIteration(g, local[g].updateServices),
            [local[g] EXCEPT !.idx = @ + 1, !.currentHash = <<>>, !.latestHash = <<>>])

\* getCurrentImageHash(service.Image): docker image inspect.
FlagCurrentHash(g) ==
    /\ ~exited
    /\ pc[g] = "image"
    /\ \E ok \in BOOLEAN :
         IF ok
         THEN /\ \E out \in Output(imageDigest[Current(g)]) :
                   Goto(g, "manifest",
                        [local[g] EXCEPT !.currentHash = getCurrentImageHash(out)])
              /\ cycleLog' = [cycleLog EXCEPT ![g].inspected = @ \cup {Current(g)}]
         ELSE FlagSkip(g)
    /\ UNCHANGED <<world, config, exited, req, cyclesStarted, overlapped, active>>

\* getLatestImageHash(service.Image): docker manifest inspect, answered by the
\* registry, and the comparison: differing hashes set the flag and break.
FlagLatestHash(g) ==
    /\ ~exited
    /\ pc[g] = "manifest"
    /\ \E ok \in BOOLEAN :
         IF ok
         THEN \E digest \in Digests :
              LET differ == local[g].currentHash /= getLatestImageHash(digest)
              IN /\ cycleLog' = [cycleLog EXCEPT
                       ![g].required = IF differ THEN @ \cup {Current(g)} ELSE @,
                       ![g].uptodate = IF differ THEN @ ELSE @ \cup {Current(g)}]
                 /\ IF differ
                    THEN Goto(g, FlagPcAfterLoop(g, TRUE),
                              [local[g] EXCEPT !.updateServices = TRUE,
                                               !.latestHash = getLatestImageHash(digest)])
                    ELSE Goto(g, FlagPcAfterIteration(g, local[g].updateServices),
                              [local[g] EXCEPT !.idx = @ + 1, !.currentHash = <<>>,
                                               !.latestHash = <<>>])
         ELSE FlagSkip(g)
    /\ UNCHANGED <<world, config, exited, req, cyclesStarted, overlapped, active>>

\* docker compose down; the pull is next whatever the outcome.
FlagDown(g) ==
    /\ ~exited
    /\ pc[g] = "down"
    /\ \E ok \in {b \in BOOLEAN : b => Loadable(composeFile)} :
         /\ cycleLog' = [cycleLog EXCEPT ![g].downs = @ + 1,
                                        ![g].downFailed = ~ok,
                                        ![g].stopped = @ \cup Stack]
         /\ container' = IF ok
                         THEN [s \in DOMAIN container |->
                                 IF s \in Stack THEN None ELSE container[s]]
                         ELSE container
         /\ Goto(g, "pull", local[g])
    /\ UNCHANGED <<composeFile, imageDigest, config, exited, req, cyclesStarted,
                   overlapped, active>>

\* docker compose pull, without service arguments; up is next whatever the outcome.
FlagPull(g) ==
    /\ ~exited
    /\ pc[g] = "pull"
    /\ \E ok \in {b \in BOOLEAN : b => Loadable(composeFile)} :
         /\ cycleLog' = [cycleLog EXCEPT ![g].pulls = Append(@, Stack),
                                        ![g].pullFailed = ~ok]
         /\ IF ok
            THEN \E fresh \in [Stack -> Digests] :
                   imageDigest' = [s \in DOMAIN imageDigest |->
                                     IF s \in DOMAIN fresh THEN fresh[s] ELSE imageDigest[s]]
            ELSE UNCHANGED imageDigest
         /\ Goto(g, "up", local[g])
    /\ UNCHANGED <<composeFile, container, config, exited, req, cyclesStarted,
                   overlapped, active>>

\* One step of the variant's updateImages; its up is the `docker compose up -d`
\* of Up.
FlagStep(g) ==
    \/ FlagRead(g)
    \/ FlagCurrentHash(g)
    \/ FlagLatestHash(g)
    \/ FlagDown(g)
    \/ FlagPull(g)
    \/ Up(g)

\* main: for { updateImages(); time.Sleep(5 * time.Minute) }, the loop of DaemonLoop.
NextFlag ==
    \/ DaemonLoop
    \/ FlagStep(Daemon)

\* The variant has no selection policy and reads no container: the policy is
\* the empty one and no container runs yet.
InitFlag ==
    /\ composeFile \in ComposeFiles
    /\ imageDigest \in [Declarable -> Digests]
    /\ container = [s \in Declarable |-> None]
    /\ config = Policy(<<>>, <<>>)
    /\ InitContexts([g \in Ctx |-> IF g = Daemon THEN "start" ELSE "off"])

SpecFlag == InitFlag /\ [][NextFlag]_vars

\* ------------------------------------------ the selection policy on its own

Policies == {Policy(inc, exc) : inc \in SeqUpTo(Names, MaxList), exc \in SeqUpTo(Names, MaxList)}

InitPolicy ==
    /\ composeFile \in {File(d) : d \in SUBSET Declarable}
    /\ imageDigest = [s \in Declarable |-> "d1"]
    /\ container = [s \in Declarable |-> None]
    /\ config \in Policies
    /\ InitContexts([g \in Ctx |-> "off"])

\* shouldProcessService(name, config) is called.
CallShouldProcessService ==
    /\ active.called = ""
    /\ \E n \in Names :
         active' = [called |-> "shouldProcessService", name |-> n,
                    verdict |-> shouldProcessService(n, config), result |-> <<>>]
    /\ UNCHANGED <<world, config, exited, pc, req, status, local, cycleLog,
                   cyclesStarted, overlapped>>

\* listServices(compose, config) is called.
CallListServices ==
    /\ active.called = ""
    /\ \E order \in listServices(composeFile.declared, config) :
         active' = [called |-> "listServices", name |-> "", verdict |-> FALSE,
                    result |-> order]
    /\ UNCHANGED <<world, config, exited, pc, req, status, local, cycleLog,
                   cyclesStarted, overlapped>>

NextPolicy ==
    \/ CallShouldProcessService
    \/ CallListServices

SpecPolicy == InitPolicy /\ [][NextPolicy]_vars

\* ================================================================ claims

\* The handlers whose request was a POST: the accepted triggers.
Triggers == {g \in Ctx : Accepted(g) /\ req[g].method = "POST"}

\* C1: at most one update cycle (an execution of updateImages) is in progress
\* at any instant.  handleUpdate calls updateImages in each request's own
\* goroutine, so two POSTs overlap: TLC refutes this.
C1_AtMostOneCycle == Cardinality(Running) <= 1

\* C2: one trigger that starts a cycle from idle, followed by N >= 1 triggers
\* that arrive while that cycle is still running, gives exactly 2 cycles once
\* everything has finished.  The code runs N + 1: TLC refutes this with N = 2.
C2_ExactlyTwoCycles ==
    LET idleStarts == {g \in Triggers : overlapped[g] = {}}
        further == Triggers \ idleStarts
    IN (/\ ~exited
        /\ Running = {}
        /\ Cardinality(idleStarts) = 1
        /\ further /= {}
        /\ \A g \in further : idleStarts \subseteq overlapped[g])
       => cyclesStarted = 2

\* C3: a trigger accepted while a cycle is in progress is never lost: the step
\* in which handleUpdate accepts the POST is itself the start of a cycle (the
\* handler's own call of updateImages), so a cycle starts after the trigger.
C3_TriggerStartsCycle ==
    [][\A g \in Handlers :
         (pc[g] = "idle" /\ pc'[g] /= "idle" /\ req'[g].method = "POST" /\ Running /= {})
         => (pc'[g] = "read" /\ cyclesStarted' = cyclesStarted + 1)]_vars

\* A POST was accepted while another handler's cycle was running, and its own
\* cycle has started.
C3_Witness == \E g \in Handlers : overlapped[g] /= {} /\ InCycle(g)

\* C4: the webhook handler only signals and returns; it never executes the
\* steps of a cycle in its own context.  handleUpdate runs the whole cycle
\* before it writes its response: TLC refutes this.
C4_HandlerNeverRunsCycle ==
    \A g \in Handlers :
        /\ ~InCycle(g)
        /\ status[g] = StatusOK => cycleLog[g] = EmptyLog

\* C5: a POST whose signature header is missing or does not match the shared
\* secret is rejected and starts no cycle.  handleUpdate never reads the
\* header: TLC refutes this.
C5_UnsignedRejected ==
    \A g \in Handlers :
        (Accepted(g) /\ req[g].method = "POST" /\ req[g].sig \in {"missing", "bad"})
        => (~InCycle(g) /\ status[g] /= StatusOK /\ ~cycleLog[g].loaded)

\* C6: a request with any method other than POST is answered 405 and never
\* starts a cycle: cycles are started by POSTs only.
C6_NonPostIs405 ==
    /\ \A g \in Handlers :
         (Accepted(g) /\ req[g].method /= "POST")
         => (status[g] = StatusMethodNotAllowed /\ pc[g] = "done" /\ cycleLog[g] = EmptyLog)
    /\ cyclesStarted = Cardinality(Triggers)

\* A GET and a PUT have both been answered.
C6_Witness ==
    /\ \E g \in Handlers : req[g].method = "GET" /\ status[g] = StatusMethodNotAllowed
    /\ \E g \in Handlers : req[g].method = "PUT" /\ status[g] = StatusMethodNotAllowed

\* C7: exclude dominates include: a name in Exclude is refused by
\* shouldProcessService and is not in what listServices returns, whether or
\* not it is also in Include.
C7_ExcludeDominates ==
    /\ (active.called = "shouldProcessService" /\ active.name \in Range(config.Exclude))
       => active.verdict = FALSE
    /\ active.called = "listServices"
       => Range(active.result) \cap Range(config.Exclude) = {}

\* shouldProcessService has answered for a name that is in both lists.
C7_Witness ==
    /\ active.called = "shouldProcessService"
    /\ active.name \in Range(config.Exclude) \cap Range(config.Include)
    /\ active.verdict = FALSE

\* C8: listServices returns (declared minus Exclude) when Include is empty and
\* (declared intersect Include) minus Exclude otherwise, each name once;
\* undeclared names of Include are never returned.
C8_ActiveSet ==
    active.called = "listServices" =>
        LET declared == composeFile.declared
            inc == Range(config.Include)
            exc == Range(config.Exclude)
        IN /\ Range(active.result) =
                 IF Len(config.Include) = 0 THEN declared \ exc
                 ELSE (declared \cap inc) \ exc
           /\ Range(active.result) \subseteq declared
           /\ Len(active.result) = Cardinality(Range(active.result))

\* listServices has answered for an include list that names a declared and an
\* undeclared service, with a second declared service left out.
C8_Witness ==
    /\ active.called = "listServices"
    /\ composeFile.declared = {"a", "b"}
    /\ Range(config.Include) = {"a", "x"}
    /\ active.result = <<"a">>

\* C9: when the active set is empty the cycle ends at once: no pull, no digest
\* inspection, no down and no up.
C9_EmptyActiveSetDoesNothing ==
    \A g \in Ctx :
        (cycleLog[g].loaded /\ cycleLog[g].active = {})
        => /\ pc[g] = ReturnPc(g)
           /\ cycleLog[g].pulls = <<>>
           /\ cycleLog[g].inspected = {}
           /\ cycleLog[g].downs = 0
           /\ cycleLog[g].ups = 0

\* A cycle has loaded a compose file that declares services, all of them
\* rejected by the policy, and has returned.
C9_Witness ==
    /\ cycleLog[Daemon].loaded
    /\ cycleLog[Daemon].declared /= {}
    /\ cycleLog[Daemon].active = {}
    /\ pc[Daemon] = "sleep"

\* C10: an active workload with no live instance is decided update required,
\* and the cycle performs the restart.  The code finds an empty container
\* name, fails to inspect it and skips the workload: TLC refutes this.
C10_AbsentIsRequired ==
    \A g \in Ctx :
        /\ \A s \in cycleLog[g].absent :
             (pc[g] = "digest" /\ Current(g) = s) \/ s \in cycleLog[g].required
        /\ (pc[g] = ReturnPc(g) /\ cycleLog[g].absent /= {})
           => (cycleLog[g].downs = 1 /\ cycleLog[g].ups = 1)

\* C11: a workload whose desired and running digests both resolve is marked
\* update required exactly when the two trimmed digest strings differ: equal
\* digests never require an update, different ones always do, whatever
\* whitespace surrounds them in the tool output.
C11_RequiredIffDigestsDiffer ==
    \A g \in Ctx :
        /\ cycleLog[g].required \cap cycleLog[g].uptodate = {}
        /\ \A s \in cycleLog[g].required \cup cycleLog[g].uptodate :
             s \in cycleLog[g].required <=> s \notin cycleLog[g].same

\* One cycle has compared two workloads: one with different digests, marked
\* required, and one with equal digests, left alone.
C11_Witness ==
    /\ cycleLog[Daemon].required = {"a"}
    /\ cycleLog[Daemon].uptodate = {"b"}
    /\ cycleLog[Daemon].same = {"b"}

\* C12: down and up run in a cycle exactly when at least one active workload
\* was decided update required; a cycle without a required workload performs
\* neither.
C12_RestartIffRequired ==
    \A g \in Ctx :
        /\ (pc[g] \in {"down", "up"} \/ cycleLog[g].downs > 0 \/ cycleLog[g].ups > 0)
           => cycleLog[g].required /= {}
        /\ (pc[g] = ReturnPc(g) /\ cycleLog[g].required /= {})
           => (cycleLog[g].downs = 1 /\ cycleLog[g].ups = 1)

\* A cycle that found one workload required and another up to date has run
\* down and up and returned.
C12_Witness ==
    /\ pc[Daemon] = "sleep"
    /\ cycleLog[Daemon].required /= {}
    /\ cycleLog[Daemon].uptodate /= {}
    /\ cycleLog[Daemon].downs = 1
    /\ cycleLog[Daemon].ups = 1

\* The declared workloads of a cycle that its selection policy rejected.
Rejected(g) == cycleLog[g].declared \ cycleLog[g].active

\* C13 as stated: a declared workload that the selection policy rejects is
\* never stopped or started by a cycle.  docker compose down and up are
\* issued without service arguments and act on the whole stack: TLC refutes
\* this.
C13_OnlyActiveRestarted ==
    \A g \in Ctx : Rejected(g) \cap (cycleLog[g].stopped \cup cycleLog[g].started) = {}

\* C13 amended: a rejected workload is never pulled or inspected, and it is
\* stopped or started (with the whole stack) only in a cycle in which some
\* active workload was decided update required.
C13_RejectedOnlyRestartedWithStack ==
    \A g \in Ctx :
        /\ \A k \in 1..Len(cycleLog[g].pulls) : cycleLog[g].pulls[k] \cap Rejected(g) = {}
        /\ cycleLog[g].inspected \cap Rejected(g) = {}
        /\ Rejected(g) \cap (cycleLog[g].stopped \cup cycleLog[g].started) /= {}
           => cycleLog[g].required /= {}

\* A cycle whose policy rejected b has pulled and compared only a, found it
\* required, and has stopped and started b along with it.
C13_Witness ==
    /\ pc[Daemon] = "sleep"
    /\ cycleLog[Daemon].active = {"a"}
    /\ cycleLog[Daemon].pulls = << {"a"} >>
    /\ cycleLog[Daemon].required = {"a"}
    /\ "b" \in Rejected(Daemon)
    /\ "b" \in cycleLog[Daemon].stopped \cap cycleLog[Daemon].started

\* C14: a cycle whose bulk pull fails is aborted: no digest is inspected,
\* neither down nor up is run, updateImages returns and the process lives on.
C14_FailedPullAbortsCycle ==
    \A g \in Ctx :
        cycleLog[g].pullFailed
        => /\ pc[g] = ReturnPc(g)
           /\ ~exited
           /\ cycleLog[g].inspected = {}
           /\ cycleLog[g].required \cup cycleLog[g].uptodate \cup cycleLog[g].skipped = {}
           /\ cycleLog[g].downs = 0
           /\ cycleLog[g].ups = 0

\* The pull of the daemon's second cycle has failed and the loop is asleep.
C14_Witness ==
    /\ cycleLog[Daemon].pullFailed
    /\ Len(cycleLog[Daemon].pulls) = 1
    /\ cyclesStarted = 2
    /\ pc[Daemon] = "sleep"

\* The comparison loop of context g's cycle has run to its end.
LoopFinished(g) ==
    \/ pc[g] \in {"down", "up"}
    \/ pc[g] = ReturnPc(g) /\ Len(cycleLog[g].pulls) = 1 /\ ~cycleLog[g].pullFailed

\* C15: a digest-resolution failure skips only the failing workload, which is
\* never marked required; every other active workload is still resolved and
\* compared in the same cycle, and a required one among them still causes the
\* restart.
C15_SkipDoesNotBlockOthers ==
    \A g \in Ctx :
        /\ cycleLog[g].skipped \cap (cycleLog[g].required \cup cycleLog[g].uptodate) = {}
        /\ LoopFinished(g)
           => /\ cycleLog[g].inspected = cycleLog[g].active
              /\ cycleLog[g].skipped \cup cycleLog[g].required \cup cycleLog[g].uptodate
                    = cycleLog[g].active
        /\ (pc[g] = ReturnPc(g) /\ cycleLog[g].skipped /= {} /\ cycleLog[g].required /= {})
           => (cycleLog[g].downs = 1 /\ cycleLog[g].ups = 1)

\* The lookup of a, first in the slice, failed; b, after it, was compared and
\* found required, and the cycle has restarted the stack.
C15_Witness ==
    /\ pc[Daemon] = "up"
    /\ local[Daemon].services = <<"a", "b">>
    /\ cycleLog[Daemon].skipped = {"a"}
    /\ cycleLog[Daemon].required = {"b"}
    /\ cycleLog[Daemon].downs = 1

\* C16: best effort: every cycle that runs down also attempts up, whether
\* down succeeded or failed.
C16_UpFollowsDown ==
    \A g \in Ctx :
        /\ cycleLog[g].downs = (IF pc[g] = "up" THEN cycleLog[g].ups + 1 ELSE cycleLog[g].ups)
        /\ cycleLog[g].downFailed => pc[g] \in {"up", ReturnPc(g)}
        /\ (cycleLog[g].downFailed /\ pc[g] = ReturnPc(g)) => cycleLog[g].ups = 1

\* Down has failed and up has then been run, successfully, in the same cycle.
C16_Witness ==
    /\ pc[Daemon] = "sleep"
    /\ cycleLog[Daemon].downFailed
    /\ cycleLog[Daemon].ups = 1
    /\ ~cycleLog[Daemon].upFailed

\* C17: no failure of the pull, stop or start step terminates the process:
\* the cycle returns, the daemon loop sleeps and is able to call updateImages
\* again, and that next cycle starts afresh from reading the compose file.
C17_StepFailureNeverFatal ==
    /\ [](/\ StepFailed(cycleLog[Daemon])
               => /\ ~exited
                  /\ pc[Daemon] \in {"up", "sleep"}
                  /\ (pc[Daemon] = "sleep" /\ cyclesStarted < MaxCycles) => ENABLED DaemonLoop
          /\ (cycleLog[Daemon].prevFailed /\ cycleLog[Daemon].pulls /= <<>>)
               => cycleLog[Daemon].loaded)
    /\ [][(pc[Daemon] = "sleep" /\ pc'[Daemon] /= "sleep")
          => /\ pc'[Daemon] = "read"
             /\ local'[Daemon] = FreshLocal
             /\ cycleLog'[Daemon] = [EmptyLog EXCEPT !.prevFailed = StepFailed(cycleLog[Daemon])]]_vars

\* After a cycle in which a step failed, the next cycle has read the compose
\* file again and issued its pull.
C17_Witness ==
    /\ cycleLog[Daemon].prevFailed
    /\ cycleLog[Daemon].loaded
    /\ Len(cycleLog[Daemon].pulls) = 1
    /\ ~exited

\* C18: a missing or malformed compose file ends the process at startup only:
\* the exit comes before any pull, down or up, and never in a cycle after the
\* first.  updateImages reads the file, fatally, in every cycle: TLC refutes
\* this with a file removed between two daemon cycles.
C18_ConfigErrorFatalAtStartupOnly ==
    exited => /\ cyclesStarted = 1
              /\ cycleLog[Daemon].pulls = <<>>
              /\ cycleLog[Daemon].downs = 0
              /\ cycleLog[Daemon].ups = 0

\* C19: the steps of one cycle are strictly ordered: the pull has finished
\* before any digest is inspected, every comparison has finished before down
\* starts, and down has finished before up starts.
C19_StepsInOrder ==
    \A g \in Ctx :
        LET L == cycleLog[g]
            decided == L.skipped \cup L.required \cup L.uptodate
        IN /\ pc[g] \in {"read", "statyaml", "load", "pull"}
              => (L.pulls = <<>> /\ L.inspected = {} /\ L.downs = 0 /\ L.ups = 0)
           /\ (pc[g] \in {"image", "name", "digest"} \/ L.inspected /= {})
              => (Len(L.pulls) = 1 /\ ~L.pullFailed)
           /\ pc[g] \in {"image", "name", "digest"} => (L.downs = 0 /\ L.ups = 0)
           /\ (pc[g] = "down" \/ L.downs > 0)
              => (decided = L.active /\ L.inspected = L.active /\ L.latestSeen = "")
           /\ pc[g] = "down" => (L.downs = 0 /\ L.ups = 0)
           /\ pc[g] = "up" => (L.downs = 1 /\ L.ups = 0)
           /\ L.ups > 0 => (L.downs = 1 /\ L.ups = 1 /\ pc[g] = ReturnPc(g))

\* A cycle over two active workloads has gone through pull, both comparisons,
\* down and up.
C19_Witness ==
    /\ pc[Daemon] = "sleep"
    /\ cycleLog[Daemon].active = {"a", "b"}
    /\ Len(cycleLog[Daemon].pulls) = 1
    /\ cycleLog[Daemon].inspected = {"a", "b"}
    /\ cycleLog[Daemon].downs = 1
    /\ cycleLog[Daemon].ups = 1

\* C20: a cycle with a non-empty active set issues exactly one pull, whose
\* service arguments are exactly the active set: no excluded service is pulled,
\* no active service is left out, and there is never one pull per workload.
C20_OnePullOfActiveSet ==
    \A g \in Ctx :
        LET L == cycleLog[g]
        IN /\ Len(L.pulls) <= 1
           /\ L.loaded => L.active = listServicesSet(L.declared, config)
           /\ L.pulls /= <<>> => (L.active /= {} /\ L.pulls = <<L.active>>)
           /\ (L.loaded /\ L.active /= {} /\ pc[g] /= "pull") => L.pulls = <<L.active>>

\* A cycle over two declared services, one of them excluded, has finished
\* with its single pull naming the other service only.
C20_Witness ==
    /\ pc[Daemon] = "sleep"
    /\ cycleLog[Daemon].declared = {"a", "b"}
    /\ cycleLog[Daemon].active = {"a"}
    /\ cycleLog[Daemon].pulls = <<{"a"}>>
    /\ cycleLog[Daemon].inspected = {"a"}

\* C21: whenever some active workload is decided update required, the cycle
\* stops and starts the whole declared stack: down and up are each issued once
\* and act on every service the compose file declares, the active workloads
\* with equal digests included.
C21_WholeStackRestart ==
    /\ [](\A g \in Ctx :
            (LoopFinished(g) /\ cycleLog[g].required /= {} /\ pc[g] = ReturnPc(g))
                => (cycleLog[g].downs = 1 /\ cycleLog[g].ups = 1))
    /\ [][\A g \in Ctx :
            /\ (pc[g] = "down" /\ pc'[g] /= "down")
                 => /\ cycleLog[g].required /= {}
                    /\ IF Loadable(composeFile)
                       THEN /\ cycleLog'[g].stopped = composeFile.declared
                            /\ ~cycleLog'[g].downFailed
                                 => \A s \in composeFile.declared : container'[s] = None
                       ELSE cycleLog'[g].downFailed
            /\ (pc[g] = "up" /\ pc'[g] /= "up")
                 => IF Loadable(composeFile)
                    THEN /\ cycleLog'[g].started = composeFile.declared
                         /\ ~cycleLog'[g].upFailed
                              => \A s \in composeFile.declared :
                                     container'[s] = imageDigest[s]
                    ELSE cycleLog'[g].upFailed]_vars

\* A cycle that found one workload required and another up to date has
\* stopped and started both.
C21_Witness ==
    /\ pc[Daemon] = "sleep"
    /\ cycleLog[Daemon].required = {"a"}
    /\ cycleLog[Daemon].uptodate = {"b"}
    /\ cycleLog[Daemon].stopped = {"a", "b"}
    /\ cycleLog[Daemon].started = {"a", "b"}
    /\ ~cycleLog[Daemon].downFailed
    /\ ~cycleLog[Daemon].upFailed

\* C22: in the flag-based variant, a cycle in which every service's current
\* hash equals its latest hash performs no down, pull or up.  The variant
\* initialises updateServices to true, so the restart runs in every cycle:
\* TLC refutes this.
C22_NoRestartWhenAllEqual ==
    LET L == cycleLog[Daemon]
    IN (L.loaded /\ L.declared /= {} /\ L.uptodate = L.declared)
         => (L.downs = 0 /\ L.pulls = <<>> /\ L.ups = 0)

\* C23: the workload set is read once at the start of every cycle and not
\* again during it.  Before the one os.ReadFile of a cycle nothing is loaded;
\* that read takes the file as it is at that moment, under the name os.Stat
\* found, so an edit made before it, between two cycles included, is what the
\* cycle sees, and a file gone or broken by then ends the process; after it
\* the active set, the pull arguments and the per-workload decisions all come
\* from the set it loaded, whatever happens to the file meanwhile.
C23_LoadedOncePerCycle ==
    /\ [](\A g \in Ctx :
            LET L == cycleLog[g]
            IN /\ pc[g] \in {"read", "statyaml", "load"}
                    => (~L.loaded /\ L.declared = {} /\ L.active = {} /\ L.pulls = <<>>)
               /\ pc[g] = "load" => local[g].file \in FileNames
               /\ L.loaded => L.active = listServicesSet(L.declared, config)
               /\ (InCycle(g) /\ pc[g] \notin {"read", "statyaml", "load"})
                    => /\ L.loaded
                       /\ Loadable(local[g].compose)
                       /\ local[g].compose.declared = L.declared
                       /\ Range(local[g].services) = L.active
               /\ L.pulls /= <<>> => L.pulls = <<L.active>>
               /\ (L.inspected \cup L.required \cup L.uptodate \cup L.skipped)
                    \subseteq L.active)
    /\ [][\A g \in Ctx :
            /\ (pc[g] = "load" /\ pc'[g] /= "load")
                 => IF Exists(local[g].file) /\ Loadable(composeFile)
                    THEN /\ cycleLog'[g].loaded
                         /\ cycleLog'[g].declared = composeFile.declared
                         /\ ~exited'
                    ELSE /\ exited'
                         /\ pc'[g] = "fatal"
                         /\ ~cycleLog'[g].loaded
            /\ (cycleLog'[g].loaded /= cycleLog[g].loaded
                  \/ cycleLog'[g].declared /= cycleLog[g].declared
                  \/ cycleLog'[g].active /= cycleLog[g].active)
                 => (pc[g] = "load" \/ pc'[g] = "read")]_vars

\* The second cycle is comparing service b, which it loaded from the file
\* found as docker-compose.yaml, after the file was edited during the cycle
\* to declare a only.
C23_Witness ==
    /\ cyclesStarted = 2
    /\ pc[Daemon] = "digest"
    /\ local[Daemon].file = "yaml"
    /\ cycleLog[Daemon].declared = {"a", "b"}
    /\ composeFile = File({"a"})
    /\ Current(Daemon) = "b"
    /\ cycleLog[Daemon].pulls = <<{"a", "b"}>>

\* C24: in daemon mode the cycles never overlap and never queue up: a cycle
\* starts only from the loop's call, that is on entry or after the previous
\* updateImages call has returned and the sleep has elapsed, and each such
\* step starts exactly one cycle.
C24_DaemonCyclesSequential ==
    /\ [](/\ Cardinality(Running) <= 1
          /\ pc[Daemon] = "start" <=> cyclesStarted = 0
          /\ ENABLED DaemonLoop => ~InCycle(Daemon))
    /\ [][cyclesStarted' /= cyclesStarted
            => /\ cyclesStarted' = cyclesStarted + 1
               /\ pc[Daemon] \in {"start", "sleep"}
               /\ local[Daemon] = FreshLocal
               /\ pc'[Daemon] = "read"]_vars

\* The second cycle of the daemon is under way, the first having returned.
C24_Witness ==
    /\ cyclesStarted = 2
    /\ pc[Daemon] = "pull"
    /\ cycleLog[Daemon].loaded

\* C25: the outcome of a cycle does not depend on the order in which the
\* services map is enumerated: when the loop has ended, the workloads marked
\* update required are exactly the active, not skipped workloads whose
\* container digest differs from the image digest, those marked up to date
\* are exactly the others, and down/up follow iff some workload is required,
\* whatever order listServices returned.
C25_OrderIndependent ==
    \A g \in Ctx :
        LET L == cycleLog[g]
            compared == L.active \ L.skipped
        IN (LoopFinished(g) /\ (pc[g] = "down" \/ (pc[g] = ReturnPc(g) /\ L.downs = 0)))
             => /\ L.required = {s \in compared : container[s] /= imageDigest[s]}
                /\ L.uptodate = {s \in compared : container[s] = imageDigest[s]}
                /\ pc[g] = "down" <=> L.required /= {}

\* The loop went over b, up to date, and then a, required, and the restart is
\* about to run; the order a, b reaches the same decisions.
C25_Witness ==
    /\ pc[Daemon] = "down"
    /\ local[Daemon].services = <<"b", "a">>
    /\ cycleLog[Daemon].required = {"a"}
    /\ cycleLog[Daemon].uptodate = {"b"}

====
